---- MODULE Spec2Model ----
(***************************************************************************)
(* Klondike solitaire engine: app/card.py, app/stacks.py, app/solitaire.py *)
(*                                                                         *)
(* A pile is a sequence of cards, bottom first, top last (a Python list).  *)
(* A Card object is shared by reference between the lists that hold it, so *)
(* its mutable field face_up lives in one map keyed by the card; a copy of *)
(* a list (a snapshot) copies the references, not the orientations.        *)
(* Every operation records the exception it ended with in err.             *)
(* recycled remembers the discard pile that the last recycling draw turned *)
(* into the deck, for as long as only draws have followed it.              *)
(***************************************************************************)
EXTENDS Integers, Sequences, FiniteSets, TLC

VARIABLES deck, discard_pile, ace_piles, columns, face_up, draw, op, err, nops,
          recycled

vars ==
    <<deck, discard_pile, ace_piles, columns, face_up, draw, op, err, nops, recycled>>

(* ------------------------------ bounds --------------------------------- *)

\* operations per run
MaxOps == 2

\* largest num_cards offered to column_to_column
MaxRun == 2

\* moves off the discard pile in a run of SpecDraw
MaxDiscardMoves == 2

\* column_to_column calls in a run of SpecColumnMoves
MaxColumnMoves == 1

\* cards on the discard pile when SpecEmptied draws from a non-empty deck
MaxHeld == 0

(* ------------------------------- card ---------------------------------- *)

COLUMNS == 7

KING == 13

SuitOrder == <<"clubs", "diamonds", "hearts", "spades">>

SUITS == {SuitOrder[i] : i \in 1..Len(SuitOrder)}

\* the Card objects of one game, numbered in the order Deck.reset_deck creates
\* them: suit by suit, ace to king within a suit
Card == 1..(Len(SuitOrder) * KING)

value(card) == ((card - 1) % KING) + 1

suit(card) == SuitOrder[((card - 1) \div KING) + 1]

color(card) == IF suit(card) \in {"diamonds", "hearts"} THEN "red" ELSE "black"

\* a variant that turns the card face up whatever its orientation
flip_up(f, card) == [f EXCEPT ![card] = TRUE]

\* Card.flip toggles the orientation of one card object
flip(f, card) == [f EXCEPT ![card] = ~@]

(* --------------------------- python lists ------------------------------ *)

\* the position a slice bound i denotes in a list of length n
SliceBound(n, i) ==
    IF i < 0 THEN (IF i + n < 0 THEN 0 ELSE i + n)
    ELSE (IF i > n THEN n ELSE i)

\* s[i:]
SliceFrom(s, i) == SubSeq(s, SliceBound(Len(s), i) + 1, Len(s))

\* s[:i]
SliceTo(s, i) == SubSeq(s, 1, SliceBound(Len(s), i))

\* a variant that keeps the order
Reverse_kept(s) == s

\* s.reverse()
Reverse(s) == [k \in 1..Len(s) |-> s[Len(s) + 1 - k]]

\* columns[i] exists for -COLUMNS <= i < COLUMNS; a negative i counts from the end
ValidIndex(i) == -COLUMNS <= i /\ i < COLUMNS

ColIndex(i) == IF i < 0 THEN i + COLUMNS ELSE i

top_card(cards) == cards[Len(cards)]

\* Stack.take_card: "assert not self.is_empty", then pop
Stack_take_card(cards) ==
    IF Len(cards) = 0
    THEN [err |-> "AssertionError", cards |-> cards]
    ELSE [err   |-> "none",
          card  |-> top_card(cards),
          cards |-> SubSeq(cards, 1, Len(cards) - 1)]

\* a variant of list.pop that returns nothing instead of raising
pop_error_none(cards) == "none"

\* list.pop raises IndexError on an empty list
pop_error(cards) == IF Len(cards) = 0 THEN "IndexError" ELSE "none"

(* ------------------------------- deck ---------------------------------- *)

\* Deck.reset_deck: the new cards in the order they are created
reset_deck == [k \in Card |-> k]

\* Deck.shuffle: any permutation may come out; the ones explored here are
\* k -> a*k + b (mod 52) with a coprime to 52
Shuffles == {<<27, 42>>, <<37, 7>>}

shuffle(cards, sh) ==
    [k \in 1..Len(cards) |-> cards[((sh[1] * (k - 1) + sh[2]) % Len(cards)) + 1]]

(* ------------------------------ ace pile ------------------------------- *)

\* a variant that lets any card start an empty pile
AcePile_can_add_card_on_empty(cards, card) ==
    IF value(card) = 1 THEN TRUE
    ELSE IF Len(cards) = 0 THEN TRUE
    ELSE /\ suit(card) = suit(top_card(cards))
         /\ value(card) = value(top_card(cards)) + 1

AcePile_can_add_card(cards, card) ==
    IF value(card) = 1 THEN TRUE
    ELSE IF Len(cards) = 0 THEN FALSE
    ELSE /\ suit(card) = suit(top_card(cards))
         /\ value(card) = value(top_card(cards)) + 1

\* a variant that puts the card in the place of the top card
AcePile_add_card_replacing(cards, card) ==
    IF ~AcePile_can_add_card(cards, card)
    THEN [err |-> "IllegalMoveError", cards |-> cards]
    ELSE [err   |-> "none",
          cards |-> IF Len(cards) = 0 THEN <<card>>
                    ELSE [cards EXCEPT ![Len(cards)] = card]]

\* AcePile.add_card: the pile afterwards and the exception raised
AcePile_add_card(cards, card) ==
    IF ~AcePile_can_add_card(cards, card)
    THEN [err |-> "IllegalMoveError", cards |-> cards]
    ELSE [err |-> "none", cards |-> Append(cards, card)]

\* a variant without the override: Stack.add_cards appends the cards
AcePile_add_cards_inherited(cards, added) == [err |-> "none", cards |-> cards \o added]

\* AcePile.add_cards: "raise IllegalMoveError()" whatever the cards
AcePile_add_cards(cards, added) == [err |-> "IllegalMoveError", cards |-> cards]

(* ------------------------------- column -------------------------------- *)

\* a variant that ignores the colors
Column_can_add_card_any_color(cards, card) ==
    IF Len(cards) = 0 THEN value(card) = KING
    ELSE value(card) = value(top_card(cards)) - 1

Column_can_add_card(cards, card) ==
    IF Len(cards) = 0 THEN value(card) = KING
    ELSE /\ color(card) /= color(top_card(cards))
         /\ value(card) = value(top_card(cards)) - 1

\* Column.add_card
Column_add_card(cards, card) ==
    IF ~Column_can_add_card(cards, card)
    THEN [err |-> "IllegalMoveError", cards |-> cards]
    ELSE [err |-> "none", cards |-> Append(cards, card)]

\* a variant that checks the last card of the list instead of the first
Column_add_cards_last_checked(cards, added) ==
    IF ~Column_can_add_card(cards, added[Len(added)])
    THEN [err |-> "IllegalMoveError", cards |-> cards]
    ELSE [err |-> "none", cards |-> cards \o added]

\* Column.add_cards with a non-empty list: only its first card is checked
Column_add_cards(cards, added) ==
    IF ~Column_can_add_card(cards, added[1])
    THEN [err |-> "IllegalMoveError", cards |-> cards]
    ELSE [err |-> "none", cards |-> cards \o added]

\* a variant that never turns the new top card
reveal_top_never(cards, f) == f

\* the check "if not self.is_empty and not self.top_card.face_up: flip"
reveal_top(cards, f) ==
    IF Len(cards) /= 0 /\ ~f[top_card(cards)] THEN flip(f, top_card(cards)) ELSE f

\* Column.take_card on a non-empty column
Column_take_card(cards, f) ==
    LET rest == SubSeq(cards, 1, Len(cards) - 1)
    IN  [card |-> top_card(cards), cards |-> rest, face_up |-> reveal_top(rest, f)]

\* a variant without the size check
enough_cards_unchecked(cards, num_cards) == TRUE

\* "assert num_cards <= self.size" of Column.take_cards
enough_cards(cards, num_cards) == num_cards <= Len(cards)

\* Column.take_cards with num_cards <= size
Column_take_cards(cards, f, num_cards) ==
    LET taken == SliceFrom(cards, -num_cards)
        rest  == SliceTo(cards, -num_cards)
    IN  [taken |-> taken, cards |-> rest, face_up |-> reveal_top(rest, f)]

(* ------------------------------ solitaire ------------------------------ *)

\* a variant whose inner loop runs once more
face_down_count_one_more(i) == i + 1

\* "while col.size < i": the cards pushed on column i before its last, flipped one
face_down_count(i) == i

\* the loop of _initialize_columns from column i on: the column takes
\* face_down_count(i) cards from the deck top as they are, then one more, flipped
RECURSIVE initialize_columns(_, _)
initialize_columns(g, i) ==
    IF i >= COLUMNS THEN g
    ELSE LET n    == Len(g.deck)
             m    == face_down_count(i)
             down == [j \in 1..m |-> g.deck[n + 1 - j]]
             last == g.deck[n - m]
         IN  initialize_columns(
                 [g EXCEPT !.deck    = SubSeq(g.deck, 1, n - m - 1),
                           !.columns = [@ EXCEPT ![i] = Append(down, last)],
                           !.face_up = flip(@, last)],
                 i + 1)

\* the table reset_game builds from a freshly shuffled deck of face-down cards
Deal(d) ==
    initialize_columns(
        [deck         |-> d,
         discard_pile |-> <<>>,
         ace_piles    |-> [s \in SUITS |-> <<>>],
         columns      |-> [i \in 0..(COLUMNS - 1) |-> <<>>],
         face_up      |-> [c \in Card |-> FALSE]],
        0)

\* the games a reset can produce, one for each shuffle explored
NewGame == [sh \in Shuffles |-> Deal(shuffle(reset_deck, sh))]

reset_game(dr, sh) ==
    /\ draw' = dr
    /\ deck' = NewGame[sh].deck
    /\ discard_pile' = NewGame[sh].discard_pile
    /\ ace_piles' = NewGame[sh].ace_piles
    /\ columns' = NewGame[sh].columns
    /\ face_up' = NewGame[sh].face_up
    /\ op' = "reset_game"
    /\ err' = "none"

\* a variant that leaves every card as it lies
FlipAll_none(f, cards) == f

\* [c.flip() for c in cards]
RECURSIVE FlipAll(_, _)
FlipAll(f, cards) ==
    IF Len(cards) = 0 THEN f ELSE FlipAll(flip(f, cards[1]), Tail(cards))

\* a variant that lifts the top k cards off the deck in one piece
DrawLoop_slice(d, drawn, f, k) ==
    LET moved == SliceFrom(d, Len(d) - (IF k < Len(d) THEN k ELSE Len(d)))
    IN  [err     |-> "none",
         deck    |-> SubSeq(d, 1, Len(d) - Len(moved)),
         drawn   |-> drawn \o moved,
         face_up |-> FlipAll(f, moved)]

\* a variant whose except clause names the wrong exception
draw_catches_illegal_move(e) == e = "IllegalMoveError"

\* "except AssertionError" in the loop of draw_from_pile
draw_catches(e) == e = "AssertionError"

\* the loop of draw_from_pile: k more iterations, each taking the deck top and
\* flipping it; an exception the except clause catches breaks the loop, any
\* other leaves the method before "self.discard_pile += drawn"
RECURSIVE DrawLoop(_, _, _, _)
DrawLoop(d, drawn, f, k) ==
    IF k <= 0 THEN [err |-> "none", deck |-> d, drawn |-> drawn, face_up |-> f]
    ELSE LET t == Stack_take_card(d)
         IN  IF t.err = "none"
             THEN DrawLoop(t.cards, Append(drawn, t.card), flip(f, t.card), k - 1)
             ELSE IF draw_catches(t.err)
             THEN [err |-> "none", deck |-> d, drawn |-> drawn, face_up |-> f]
             ELSE [err |-> t.err, deck |-> d, drawn |-> <<>>, face_up |-> f]

draw_from_pile ==
    /\ op' = "draw_from_pile"
    /\ UNCHANGED <<ace_piles, columns, draw>>
    /\ IF Len(deck) = 0
       THEN /\ err' = "none"
            /\ deck' = Reverse(deck \o discard_pile)
            /\ face_up' = FlipAll(face_up, discard_pile)
            /\ discard_pile' = <<>>
       ELSE LET r == DrawLoop(deck, <<>>, face_up, draw)
            IN  /\ err' = r.err
                /\ deck' = r.deck
                /\ face_up' = r.face_up
                /\ discard_pile' = discard_pile \o r.drawn

\* "self.discard_pile.append(card)" in the except branch
put_back(popped, card) == Append(popped, card)

\* a variant that forgets to restore the snapshot
restore_column_forgotten(cols, idx, column_snapshot) == cols

\* "self.columns[idx].cards = column_snapshot" in the except branch
restore_column(cols, idx, column_snapshot) == [cols EXCEPT ![idx] = column_snapshot]

discard_to_column(col_idx) ==
    /\ op' = "discard_to_column"
    /\ UNCHANGED <<deck, ace_piles, face_up, draw>>
    /\ IF Len(discard_pile) = 0
       THEN \* pop from an empty list
            /\ err' = pop_error(discard_pile)
            /\ UNCHANGED <<discard_pile, columns>>
       ELSE LET card   == top_card(discard_pile)
                popped == SubSeq(discard_pile, 1, Len(discard_pile) - 1)
                c      == ColIndex(col_idx)
                r      == Column_add_card(columns[c], card)
            IN  IF ~ValidIndex(col_idx)
                THEN \* self.columns[col_idx] raises after the pop
                     /\ err' = "IndexError"
                     /\ discard_pile' = popped
                     /\ UNCHANGED columns
                ELSE IF r.err = "IllegalMoveError"
                THEN /\ err' = r.err
                     /\ discard_pile' = put_back(popped, card)
                     /\ UNCHANGED columns
                ELSE /\ err' = "none"
                     /\ discard_pile' = popped
                     /\ columns' = [columns EXCEPT ![c] = r.cards]

\* a variant whose except branch puts the card on the deck
discard_to_ace_pile_onto_deck ==
    /\ op' = "discard_to_ace_pile"
    /\ UNCHANGED <<columns, face_up, draw>>
    /\ IF Len(discard_pile) = 0
       THEN /\ err' = pop_error(discard_pile)
            /\ UNCHANGED <<deck, discard_pile, ace_piles>>
       ELSE LET card   == top_card(discard_pile)
                popped == SubSeq(discard_pile, 1, Len(discard_pile) - 1)
                r      == AcePile_add_card(ace_piles[suit(card)], card)
            IN  IF r.err = "IllegalMoveError"
                THEN /\ err' = r.err
                     /\ discard_pile' = popped
                     /\ deck' = Append(deck, card)
                     /\ UNCHANGED ace_piles
                ELSE /\ err' = "none"
                     /\ discard_pile' = popped
                     /\ ace_piles' = [ace_piles EXCEPT ![suit(card)] = r.cards]
                     /\ UNCHANGED deck

discard_to_ace_pile ==
    /\ op' = "discard_to_ace_pile"
    /\ UNCHANGED <<deck, columns, face_up, draw>>
    /\ IF Len(discard_pile) = 0
       THEN /\ err' = pop_error(discard_pile)
            /\ UNCHANGED <<discard_pile, ace_piles>>
       ELSE LET card   == top_card(discard_pile)
                popped == SubSeq(discard_pile, 1, Len(discard_pile) - 1)
                r      == AcePile_add_card(ace_piles[suit(card)], card)
            IN  IF r.err = "IllegalMoveError"
                THEN /\ err' = r.err
                     /\ discard_pile' = put_back(popped, card)
                     /\ UNCHANGED ace_piles
                ELSE /\ err' = "none"
                     /\ discard_pile' = popped
                     /\ ace_piles' = [ace_piles EXCEPT ![suit(card)] = r.cards]

column_to_column(src_idx, dest_idx, num_cards) ==
    /\ op' = "column_to_column"
    /\ UNCHANGED <<deck, discard_pile, ace_piles, draw>>
    /\ IF ~ValidIndex(src_idx)
       THEN /\ err' = "IndexError"
            /\ UNCHANGED <<columns, face_up>>
       ELSE LET src             == ColIndex(src_idx)
                dst             == ColIndex(dest_idx)
                column_snapshot == columns[src]
                t     == Column_take_cards(columns[src], face_up, num_cards)
                taken == [columns EXCEPT ![src] = t.cards]
                r     == Column_add_cards(taken[dst], t.taken)
                added == [taken EXCEPT ![dst] = r.cards]
            IN  IF ~enough_cards(columns[src], num_cards)
                THEN \* assert num_cards <= self.size
                     /\ err' = "AssertionError"
                     /\ UNCHANGED <<columns, face_up>>
                ELSE IF ~ValidIndex(dest_idx) \/ Len(t.taken) = 0
                THEN \* self.columns[dest_idx], or cards[0] of an empty list
                     /\ err' = "IndexError"
                     /\ columns' = taken
                     /\ face_up' = t.face_up
                ELSE IF r.err = "IllegalMoveError"
                THEN /\ err' = r.err
                     /\ columns' = restore_column(taken, src, column_snapshot)
                     /\ face_up' = t.face_up
                ELSE /\ err' = "none"
                     /\ columns' = added
                     /\ face_up' = reveal_top(added[src], t.face_up)

column_to_ace_pile(col_idx) ==
    /\ op' = "column_to_ace_pile"
    /\ UNCHANGED <<deck, discard_pile, draw>>
    /\ IF ~ValidIndex(col_idx)
       THEN /\ err' = "IndexError"
            /\ UNCHANGED <<columns, ace_piles, face_up>>
       ELSE LET c               == ColIndex(col_idx)
                column_snapshot == columns[c]
                t     == Column_take_card(columns[c], face_up)
                taken == [columns EXCEPT ![c] = t.cards]
                r     == AcePile_add_card(ace_piles[suit(t.card)], t.card)
            IN  IF Len(columns[c]) = 0
                THEN \* assert not self.is_empty
                     /\ err' = "AssertionError"
                     /\ UNCHANGED <<columns, ace_piles, face_up>>
                ELSE IF r.err = "IllegalMoveError"
                THEN /\ err' = r.err
                     /\ columns' = restore_column(taken, c, column_snapshot)
                     /\ face_up' = t.face_up
                     /\ UNCHANGED ace_piles
                ELSE /\ err' = "none"
                     /\ columns' = taken
                     /\ ace_piles' = [ace_piles EXCEPT ![suit(t.card)] = r.cards]
                     /\ face_up' = reveal_top(t.cards, t.face_up)

\* arguments offered to the operations: every column and one index past the
\* last column; every num_cards from 0
IndexArgs == 0..COLUMNS

RunArgs == 0..MaxRun

DrawArgs == 1..3

\* no recycling draw to remember
NoRecycle == [seen |-> FALSE, pile |-> <<>>]

\* what a draw leaves in recycled: a draw on an empty deck is a recycling draw
RecycledAfterDraw ==
    IF Len(deck) = 0 THEN [seen |-> TRUE, pile |-> discard_pile] ELSE recycled

\* Solitaire(draw): the constructor asserts draw is 1 or 3, then reset_game
Init ==
    /\ \E dr \in {1, 3}, sh \in Shuffles :
        /\ draw = dr
        /\ deck = NewGame[sh].deck
        /\ discard_pile = NewGame[sh].discard_pile
        /\ ace_piles = NewGame[sh].ace_piles
        /\ columns = NewGame[sh].columns
        /\ face_up = NewGame[sh].face_up
    /\ op = "reset_game"
    /\ err = "none"
    /\ nops = 0
    /\ recycled = NoRecycle

\* one more operation, while the run has any left
Tick == nops < MaxOps /\ nops' = nops + 1

ResetGame ==
    /\ Tick
    /\ recycled' = NoRecycle
    /\ \E dr \in DrawArgs, sh \in Shuffles : reset_game(dr, sh)

DrawFromPile ==
    /\ Tick
    /\ recycled' = RecycledAfterDraw
    /\ draw_from_pile

DiscardToColumn ==
    /\ Tick
    /\ recycled' = NoRecycle
    /\ \E i \in IndexArgs : discard_to_column(i)

DiscardToAcePile ==
    /\ Tick
    /\ recycled' = NoRecycle
    /\ discard_to_ace_pile

ColumnToColumn ==
    /\ Tick
    /\ recycled' = NoRecycle
    /\ \E s \in IndexArgs, d \in IndexArgs, n \in RunArgs : column_to_column(s, d, n)

ColumnToAcePile ==
    /\ Tick
    /\ recycled' = NoRecycle
    /\ \E i \in IndexArgs : column_to_ace_pile(i)

Next ==
    \/ ResetGame
    \/ DrawFromPile
    \/ DiscardToColumn
    \/ DiscardToAcePile
    \/ ColumnToColumn
    \/ ColumnToAcePile

Spec == Init /\ [][Next]_vars

(* ------------------------- moves between columns ---------------------- *)

\* one more column_to_column call, while the run has any left
TickColumnMove == nops < MaxColumnMoves /\ nops' = nops + 1

ColumnToColumnMove ==
    /\ TickColumnMove
    /\ recycled' = NoRecycle
    /\ \E s \in IndexArgs, d \in IndexArgs, n \in RunArgs : column_to_column(s, d, n)

\* a game in which the player only moves runs between columns
SpecColumnMoves == Init /\ [][ColumnToColumnMove]_vars

(* ------------------------- the pile on its own ------------------------- *)

\* AcePile.add_card called directly on one of the piles, with any card
AcePileAddCard ==
    /\ Tick
    /\ \E s \in SUITS, card \in Card :
        LET r == AcePile_add_card(ace_piles[s], card)
        IN  /\ ace_piles' = [ace_piles EXCEPT ![s] = r.cards]
            /\ err' = r.err
            /\ op' = "AcePile.add_card"
    /\ UNCHANGED <<deck, discard_pile, columns, face_up, draw, recycled>>

\* the lists offered to AcePile.add_cards: one card, or a card and the next
\* of its suit
CardLists ==
    {<<c>> : c \in Card} \cup {<<c, c + 1>> : c \in {k \in Card : value(k) < KING}}

\* AcePile.add_cards called directly on one of the piles
AcePileAddCards ==
    /\ Tick
    /\ \E s \in SUITS, added \in CardLists :
        LET r == AcePile_add_cards(ace_piles[s], added)
        IN  /\ ace_piles' = [ace_piles EXCEPT ![s] = r.cards]
            /\ err' = r.err
            /\ op' = "AcePile.add_cards"
    /\ UNCHANGED <<deck, discard_pile, columns, face_up, draw, recycled>>

NextAcePile ==
    \/ AcePileAddCard
    \/ AcePileAddCards

SpecAcePile == Init /\ [][NextAcePile]_vars

\* Column.add_card called directly on one of the columns, with any card
ColumnAddCard ==
    /\ Tick
    /\ \E i \in 0..(COLUMNS - 1), card \in Card :
        LET r == Column_add_card(columns[i], card)
        IN  /\ columns' = [columns EXCEPT ![i] = r.cards]
            /\ err' = r.err
            /\ op' = "Column.add_card"
    /\ UNCHANGED <<deck, discard_pile, ace_piles, face_up, draw, recycled>>

\* Column.take_card called directly on one of the columns
ColumnTakeCard ==
    /\ Tick
    /\ op' = "Column.take_card"
    /\ \E i \in 0..(COLUMNS - 1) :
        IF Stack_take_card(columns[i]).err /= "none"
        THEN /\ err' = Stack_take_card(columns[i]).err
             /\ UNCHANGED <<columns, face_up>>
        ELSE LET t == Column_take_card(columns[i], face_up)
             IN  /\ err' = "none"
                 /\ columns' = [columns EXCEPT ![i] = t.cards]
                 /\ face_up' = t.face_up
    /\ UNCHANGED <<deck, discard_pile, ace_piles, draw, recycled>>

NextColumn ==
    \/ ColumnAddCard
    \/ ColumnTakeCard

SpecColumn == Init /\ [][NextColumn]_vars

\* columns[i].take_cards(n) called directly
take_cards_of_column(i, n) ==
    /\ op' = "Column.take_cards"
    /\ IF ~enough_cards(columns[i], n)
       THEN /\ err' = "AssertionError"
            /\ UNCHANGED <<columns, face_up>>
       ELSE LET t == Column_take_cards(columns[i], face_up, n)
            IN  /\ err' = "none"
                /\ columns' = [columns EXCEPT ![i] = t.cards]
                /\ face_up' = t.face_up
    /\ UNCHANGED <<deck, discard_pile, ace_piles, draw, recycled>>

ColumnTakeCards ==
    /\ Tick
    /\ \E i \in 0..(COLUMNS - 1), n \in RunArgs : take_cards_of_column(i, n)

SpecColumnRuns == Init /\ [][ColumnTakeCards]_vars

(* ------------------------- drawing through the deck -------------------- *)

\* draw_from_pile as often as the player likes
DrawAgain ==
    /\ recycled' = RecycledAfterDraw
    /\ draw_from_pile
    /\ UNCHANGED nops

\* one more move that takes the discard top, while the run has any left
TickDiscard == nops < MaxDiscardMoves /\ nops' = nops + 1

DiscardToColumnOnce ==
    /\ TickDiscard
    /\ recycled' = NoRecycle
    /\ \E i \in IndexArgs : discard_to_column(i)

DiscardToAcePileOnce ==
    /\ TickDiscard
    /\ recycled' = NoRecycle
    /\ discard_to_ace_pile

NextDraw ==
    \/ DrawAgain
    \/ DiscardToColumnOnce
    \/ DiscardToAcePileOnce

\* a game in which the player draws through the deck any number of times and
\* takes a few cards off the discard pile
SpecDraw == Init /\ [][NextDraw]_vars

(* ------------------------- playing the deck out ------------------------ *)

\* draw_from_pile, called on a non-empty deck only while the discard pile
\* holds at most MaxHeld cards
DrawWhenHeld ==
    /\ Len(deck) = 0 \/ Len(discard_pile) <= MaxHeld
    /\ recycled' = RecycledAfterDraw
    /\ draw_from_pile
    /\ UNCHANGED nops

DiscardToColumnAway ==
    /\ recycled' = NoRecycle
    /\ \E i \in IndexArgs : discard_to_column(i)
    /\ UNCHANGED nops

DiscardToAcePileAway ==
    /\ recycled' = NoRecycle
    /\ discard_to_ace_pile
    /\ UNCHANGED nops

NextEmptied ==
    \/ DrawWhenHeld
    \/ DiscardToColumnAway
    \/ DiscardToAcePileAway

\* a game in which the player takes every drawn card off the discard pile,
\* until the deck and the discard pile are both empty
SpecEmptied == Init /\ [][NextEmptied]_vars

(* ------------------------------- claims -------------------------------- *)

Cols == 0..(COLUMNS - 1)

RECURSIVE Concat(_, _)
\* the piles f[1], ..., f[n] laid end to end
Concat(f, n) == IF n = 0 THEN <<>> ELSE Concat(f, n - 1) \o f[n]

\* every card held by the deck, the discard pile, the foundations and the columns
AllHeld ==
    deck \o discard_pile
         \o Concat([i \in 1..Len(SuitOrder) |-> ace_piles[SuitOrder[i]]], Len(SuitOrder))
         \o Concat([i \in 1..COLUMNS |-> columns[i - 1]], COLUMNS)

MoveOps ==
    {"discard_to_column", "discard_to_ace_pile", "column_to_column", "column_to_ace_pile"}

\* the cards of a pile have the same orientation before and after the step
SameFaces(cards) == \A k \in 1..Len(cards) : face_up'[cards[k]] = face_up[cards[k]]

\* C1: the deck, the discard pile, the foundations and the columns together
\* hold each of the 52 cards exactly once, in every reachable state.
C1_CardConservation ==
    /\ Len(AllHeld) = Cardinality(Card)
    /\ {AllHeld[k] : k \in 1..Len(AllHeld)} = Card

\* C2: a move operation that raises IllegalMoveError leaves the card sequence
\* of the deck, the discard pile, every foundation and every column as it was.
C2_RollbackSequences ==
    [][(op' \in MoveOps /\ err' = "IllegalMoveError") =>
        /\ deck' = deck
        /\ discard_pile' = discard_pile
        /\ ace_piles' = ace_piles
        /\ columns' = columns]_vars

\* a column_to_column was rejected after its take removed the top of a dealt
\* column: the card that lay under it has been turned
C2_Witness ==
    /\ op = "column_to_column"
    /\ err = "IllegalMoveError"
    /\ nops = 1
    /\ \E i \in Cols : Len(columns[i]) = i + 1 /\ i >= 1 /\ face_up[columns[i][i]]

\* C3: when column_to_column raises IllegalMoveError the source column has the
\* same cards in the same order, each with the orientation it had before.
C3_SourceColumnRestored ==
    [][\A s \in Cols :
         ( /\ op' = "column_to_column"
           /\ err' = "IllegalMoveError"
           /\ \E d \in IndexArgs, n \in RunArgs : column_to_column(s, d, n) )
         => (columns'[s] = columns[s] /\ SameFaces(columns[s]))]_vars

\* C4: when column_to_ace_pile raises IllegalMoveError the column has the same
\* cards in the same order, each with the orientation it had before.
C4_ColumnRestored ==
    [][\A i \in Cols :
         ( /\ op' = "column_to_ace_pile"
           /\ err' = "IllegalMoveError"
           /\ column_to_ace_pile(i) )
         => (columns'[i] = columns[i] /\ SameFaces(columns[i]))]_vars

\* C5: a discard_to_column or discard_to_ace_pile call that ends in any
\* failure leaves the discard pile with the same cards in the same order.
C5_DiscardKeptOnFailure ==
    [][(op' \in {"discard_to_column", "discard_to_ace_pile"} /\ err' /= "none")
        => discard_pile' = discard_pile]_vars

\* C6: the top card of every non-empty column is face up, in every reachable
\* state.
C6_TopFaceUp ==
    \A i \in Cols : Len(columns[i]) /= 0 => face_up[top_card(columns[i])]

\* a dealt column has given its top card to a foundation and the card that
\* lay face down under it is the new top
C6_Witness ==
    /\ op = "column_to_ace_pile"
    /\ err = "none"
    /\ nops = 1
    /\ \E i \in Cols : Len(columns[i]) = i /\ i >= 1 /\ face_up[top_card(columns[i])]

\* a pile reads ace, two, ..., k from the bottom, in one suit
RanksFromAce(cards) ==
    /\ Len(cards) <= KING
    /\ \A k \in 1..Len(cards) : value(cards[k]) = k /\ suit(cards[k]) = suit(cards[1])

\* C7: after any sequence of successful AcePile.add_card calls on a pile that
\* started empty, the pile reads ace, two, ..., k in one suit.
C7_PileOrdering == \A s \in SUITS : RanksFromAce(ace_piles[s])

\* C8: in every state of a game the foundation keyed by suit s holds only
\* cards of suit s, reading ace, two, ..., k from the bottom.
C8_FoundationOrdering ==
    \A s \in SUITS :
        /\ RanksFromAce(ace_piles[s])
        /\ \A k \in 1..Len(ace_piles[s]) : suit(ace_piles[s][k]) = s

\* a foundation has received its ace and its two
C8_Witness == \E s \in SUITS : Len(ace_piles[s]) >= 2

\* C9: in every column, two adjacent cards that are both face up descend by
\* one in rank and differ in color.
C9_ColumnOrdering ==
    \A i \in Cols : \A k \in 1..(Len(columns[i]) - 1) :
        (face_up[columns[i][k]] /\ face_up[columns[i][k + 1]]) =>
            /\ value(columns[i][k + 1]) = value(columns[i][k]) - 1
            /\ color(columns[i][k + 1]) /= color(columns[i][k])

\* C10: right after reset_game column i holds i+1 cards of which only the top
\* is face up, the deck holds the other 24 cards face down, and the discard
\* pile and the four foundations are empty.
C10_Deal ==
    op = "reset_game" =>
        /\ \A i \in Cols :
            /\ Len(columns[i]) = i + 1
            /\ \A k \in 1..Len(columns[i]) : face_up[columns[i][k]] <=> (k = i + 1)
        /\ Len(deck) = 24
        /\ \A k \in 1..Len(deck) : ~face_up[deck[k]]
        /\ discard_pile = <<>>
        /\ \A s \in SUITS : ace_piles[s] = <<>>
        /\ {AllHeld[k] : k \in 1..Len(AllHeld)} = Card

\* reset_game(2) was called on a game in which an operation had already run
C10_Witness == op = "reset_game" /\ nops = 2 /\ draw = 2

\* C11: a draw_from_pile on a non-empty deck of d cards moves min(draw, d)
\* cards from the deck top to the discard top one at a time: the former deck
\* top is the lowest of the moved cards and the card taken last is the new
\* discard top; every moved card ends face up; the rest of the deck and the
\* cards already on the discard pile keep their order.
C11_DrawMoves ==
    [][(op' = "draw_from_pile" /\ Len(deck) > 0) =>
        LET d == Len(deck)
            n == Len(discard_pile)
            k == IF draw < d THEN draw ELSE d
        IN  /\ Len(deck') = d - k
            /\ \A j \in 1..(d - k) : deck'[j] = deck[j]
            /\ Len(discard_pile') = n + k
            /\ \A j \in 1..n : discard_pile'[j] = discard_pile[j]
            /\ \A j \in 1..k : /\ discard_pile'[n + j] = deck[d + 1 - j]
                               /\ face_up'[deck[d + 1 - j]]]_vars

\* a draw of three has just taken the last cards of a deck whose size was not
\* a multiple of three
C11_Witness ==
    /\ op = "draw_from_pile"
    /\ draw = 3
    /\ Len(deck) = 0
    /\ recycled.seen
    /\ Len(recycled.pile) % 3 = 2
    /\ Len(discard_pile) = Len(recycled.pile)

\* C12: a draw_from_pile on an empty deck moves every discard card to the deck
\* and draws nothing: afterwards the discard pile is empty, every deck card is
\* face down, and the deck is the discard pile reversed, the card discarded
\* first being the deck top.
C12_Recycle ==
    [][(op' = "draw_from_pile" /\ Len(deck) = 0) =>
        LET n == Len(discard_pile)
        IN  /\ discard_pile' = <<>>
            /\ Len(deck') = n
            /\ \A j \in 1..n : /\ deck'[j] = discard_pile[n + 1 - j]
                               /\ ~face_up'[deck'[j]]
            /\ n > 0 => deck'[n] = discard_pile[1]]_vars

\* the discard pile has just been turned into the deck
C12_Witness ==
    /\ op = "draw_from_pile"
    /\ recycled.seen
    /\ discard_pile = <<>>
    /\ Len(deck) = Len(recycled.pile)
    /\ Len(deck) > 0

\* C13: from an empty deck and a discard pile D, a recycling draw followed by
\* draws until the deck is empty again, nothing else in between, leaves the
\* discard pile equal to D, in the same order and all face up; for draw 1 and 3.
C13_RecycleRoundTrip ==
    (recycled.seen /\ Len(deck) = 0) =>
        /\ discard_pile = recycled.pile
        /\ \A j \in 1..Len(discard_pile) : face_up[discard_pile[j]]

\* the deck has been drawn out again after a recycling draw
C13_Witness ==
    /\ recycled.seen
    /\ Len(deck) = 0
    /\ op = "draw_from_pile"
    /\ Len(discard_pile) > draw

\* C14: draw_from_pile never fails: on a deck of fewer than draw cards it draws
\* what is there and stops, and with the deck and the discard pile both empty
\* it returns normally and leaves every pile as it was.
C14_DrawNeverFails ==
    [][op' = "draw_from_pile" =>
        LET d == Len(deck)
            n == Len(discard_pile)
        IN  /\ err' = "none"
            /\ (0 < d /\ d < draw) =>
                   /\ deck' = <<>>
                   /\ Len(discard_pile') = n + d
                   /\ \A j \in 1..d : discard_pile'[n + j] = deck[d + 1 - j]
            /\ (d = 0 /\ n = 0) =>
                   UNCHANGED <<deck, discard_pile, ace_piles, columns, face_up>>]_vars

\* a draw has returned with the deck and the discard pile both empty
C14_Witness ==
    /\ op = "draw_from_pile"
    /\ err = "none"
    /\ Len(deck) = 0
    /\ Len(discard_pile) = 0

\* C15: reset_game fails for every draw count other than 1 and 3, so that the
\* draw count of the game is 1 or 3 in every reachable state.
C15_DrawCount == draw \in {1, 3}

\* C16: Column.add_card(card) succeeds, making the card the new top, exactly
\* when the column is empty and the card is a king, or the column is not empty
\* and the card differs in color from the top card and is one rank below it;
\* otherwise it raises IllegalMoveError and leaves the column unchanged.
C16_ColumnAddCard ==
    \A i \in Cols, card \in Card :
        LET cards == columns[i]
            fits  == \/ Len(cards) = 0 /\ value(card) = 13
                     \/ /\ Len(cards) > 0
                        /\ color(card) /= color(cards[Len(cards)])
                        /\ value(card) = value(cards[Len(cards)]) - 1
            r     == Column_add_card(cards, card)
        IN  /\ fits => r.err = "none" /\ r.cards = cards \o <<card>>
            /\ ~fits => r.err = "IllegalMoveError" /\ r.cards = cards

\* a king has been added to a column that was emptied
C16_Witness ==
    /\ op = "Column.add_card"
    /\ err = "none"
    /\ \E i \in Cols : Len(columns[i]) = 1 /\ value(columns[i][1]) = KING

\* C17: AcePile.add_card(card) succeeds, making the card the new top, exactly
\* when the card is an ace, or the pile is not empty and the card has the suit
\* of the top card and is one rank above it; otherwise it raises
\* IllegalMoveError and leaves the pile unchanged. AcePile.add_cards always
\* raises IllegalMoveError and leaves the pile unchanged.
C17_AcePileAddCard ==
    \A s \in SUITS :
        LET cards == ace_piles[s]
        IN  /\ \A card \in Card :
                LET fits == \/ value(card) = 1
                            \/ /\ Len(cards) > 0
                               /\ suit(card) = suit(cards[Len(cards)])
                               /\ value(card) = value(cards[Len(cards)]) + 1
                    r    == AcePile_add_card(cards, card)
                IN  /\ fits => r.err = "none" /\ r.cards = cards \o <<card>>
                    /\ ~fits => r.err = "IllegalMoveError" /\ r.cards = cards
            /\ \A added \in CardLists :
                LET r == AcePile_add_cards(cards, added)
                IN  r.err = "IllegalMoveError" /\ r.cards = cards

\* a two has been added to the ace of its suit
C17_Witness ==
    /\ op = "AcePile.add_card"
    /\ err = "none"
    /\ \E s \in SUITS :
        /\ Len(ace_piles[s]) = 2
        /\ value(ace_piles[s][2]) = 2
        /\ suit(ace_piles[s][2]) = suit(ace_piles[s][1])

\* C18: Column.take_cards(n), for every n with 0 <= n <= size, removes exactly
\* the top n cards and returns them in their bottom-to-top order, leaving the
\* other size - n cards in place; if the column is then not empty and its new
\* top card is face down, that card is turned face up.
C18_TakeCards ==
    [][\A i \in Cols, n \in RunArgs :
        (n <= Len(columns[i]) /\ take_cards_of_column(i, n)) =>
            LET cards == columns[i]
                size  == Len(cards)
            IN  /\ err' = "none"
                /\ Column_take_cards(cards, face_up, n).taken =
                       SubSeq(cards, size - n + 1, size)
                /\ columns'[i] = SubSeq(cards, 1, size - n)
                /\ size - n > 0 => face_up'[cards[size - n]]]_vars

\* C19: a single-card move from an empty source fails and changes nothing:
\* discard_to_column and discard_to_ace_pile on an empty discard pile, and
\* column_to_ace_pile on an empty column, end in an error and leave the
\* contents, the order and the orientations of every pile as they were.
C19_EmptySourceFails ==
    [][/\ (op' \in {"discard_to_column", "discard_to_ace_pile"}
             /\ Len(discard_pile) = 0) =>
            /\ err' /= "none"
            /\ UNCHANGED <<deck, discard_pile, ace_piles, columns, face_up>>
       /\ \A i \in Cols :
            (Len(columns[i]) = 0 /\ column_to_ace_pile(i)) =>
                /\ err' /= "none"
                /\ UNCHANGED <<deck, discard_pile, ace_piles, columns, face_up>>]_vars

\* column_to_ace_pile has been called on a column emptied earlier
C19_Witness ==
    /\ op = "column_to_ace_pile"
    /\ err = "AssertionError"
    /\ \E i \in Cols : Len(columns[i]) = 0

\* C20: column_to_column(src, dst, n) with n greater than the size of column
\* src fails and leaves every pile, orientations included, as it was.
C20_TooManyCards ==
    [][\A s \in Cols, n \in RunArgs :
        n > Len(columns[s]) =>
            \A d \in IndexArgs :
                column_to_column(s, d, n) =>
                    /\ err' /= "none"
                    /\ UNCHANGED <<deck, discard_pile, ace_piles, columns, face_up>>]_vars

\* column_to_column has been refused for want of cards
C20_Witness ==
    /\ op = "column_to_column"
    /\ err = "AssertionError"
    /\ \E s \in Cols : Len(columns[s]) < MaxRun

\* C21: a successful column_to_column(src, dst, n) with src /= dst and
\* 1 <= n <= size(src) removes the top n cards from src and appends them to
\* dst in the same order; it succeeds only if the lowest card of the run is
\* legal on dst (dst empty and the card a king, or the card of the other color
\* and one rank below the top of dst); the new top of src, if any, is face up;
\* the deck, the discard pile, the foundations and the other five columns are
\* unchanged.
C21_RunMoved ==
    [][(op' = "column_to_column" /\ err' = "none") =>
        \A s \in Cols, d \in Cols, n \in RunArgs :
            (s /= d /\ 1 <= n /\ n <= Len(columns[s]) /\ column_to_column(s, d, n)) =>
                LET size == Len(columns[s])
                    run  == SubSeq(columns[s], size - n + 1, size)
                    onto == columns[d]
                IN  /\ columns'[s] = SubSeq(columns[s], 1, size - n)
                    /\ columns'[d] = onto \o run
                    /\ \/ Len(onto) = 0 /\ value(run[1]) = 13
                       \/ /\ Len(onto) > 0
                          /\ color(run[1]) /= color(onto[Len(onto)])
                          /\ value(run[1]) = value(onto[Len(onto)]) - 1
                    /\ size - n > 0 => face_up'[columns[s][size - n]]
                    /\ UNCHANGED <<deck, discard_pile, ace_piles>>
                    /\ \A c \in Cols \ {s, d} : columns'[c] = columns[c]]_vars

\* one card has been moved off a column that keeps cards, onto another column
C21_Witness ==
    /\ op = "column_to_column"
    /\ err = "none"
    /\ nops = 1
    /\ \E s \in Cols, d \in Cols :
        /\ s >= 1
        /\ Len(columns[s]) = s
        /\ Len(columns[d]) = d + 2

\* C22: every run that a successful column_to_column appends to the
\* destination column is internally valid: all its cards are face up, and each
\* card lies on a card of higher rank and of the other color.
C22_RunValid ==
    [][(op' = "column_to_column" /\ err' = "none") =>
        \A d \in Cols :
            Len(columns'[d]) > Len(columns[d]) =>
                LET run == SubSeq(columns'[d], Len(columns[d]) + 1, Len(columns'[d]))
                IN  /\ \A k \in 1..Len(run) : face_up'[run[k]]
                    /\ \A k \in 1..(Len(run) - 1) :
                        /\ value(run[k + 1]) < value(run[k])
                        /\ color(run[k + 1]) /= color(run[k])]_vars

\* C23: in every reachable state every card in the deck is face down, every
\* card in the discard pile is face up and every card in a foundation is face
\* up.
C23_PileOrientations ==
    /\ \A k \in 1..Len(deck) : ~face_up[deck[k]]
    /\ \A k \in 1..Len(discard_pile) : face_up[discard_pile[k]]
    /\ \A s \in SUITS : \A k \in 1..Len(ace_piles[s]) : face_up[ace_piles[s][k]]

\* after a recycling draw and further draws the deck, the discard pile and a
\* foundation all hold cards
C23_Witness ==
    /\ recycled.seen
    /\ Len(deck) > 0
    /\ Len(discard_pile) > 0
    /\ \E s \in SUITS : Len(ace_piles[s]) > 0

\* C24: the deck changes only through drawing: discard_to_column,
\* discard_to_ace_pile, column_to_column and column_to_ace_pile, whether they
\* succeed or fail, leave the deck as it was; within a game the deck loses
\* cards only in a draw_from_pile on a non-empty deck and gains cards only in
\* a draw_from_pile on an empty deck; draw_from_pile leaves every column and
\* every foundation unchanged.
C24_DeckFrame ==
    [][/\ op' \in MoveOps => deck' = deck
       /\ (op' /= "reset_game" /\ Len(deck') < Len(deck)) =>
              op' = "draw_from_pile" /\ Len(deck) > 0
       /\ (op' /= "reset_game" /\ Len(deck') > Len(deck)) =>
              op' = "draw_from_pile" /\ Len(deck) = 0
       /\ op' = "draw_from_pile" => columns' = columns /\ ace_piles' = ace_piles]_vars

\* a move has failed after a draw
C24_Witness ==
    /\ op \in MoveOps
    /\ err /= "none"
    /\ Len(discard_pile) > 0
    /\ Len(deck) < Len(reset_deck) - (COLUMNS * (COLUMNS + 1)) \div 2

\* C25: in every reachable state the face-down cards of each column lie at its
\* bottom: no face-down card lies above a face-up card of the same column.
C25_FaceDownAtBottom ==
    \A i \in Cols :
        \A j \in 1..Len(columns[i]), k \in 1..Len(columns[i]) :
            (j < k /\ face_up[columns[i][j]]) => face_up[columns[i][k]]

\* C26: within one game the foundations only grow: after every step other than
\* reset_game each foundation begins with the cards it held before, so that
\* a card placed on a foundation never leaves it.
C26_FoundationsGrow ==
    [][op' /= "reset_game" =>
        \A s \in SUITS :
            /\ Len(ace_piles'[s]) >= Len(ace_piles[s])
            /\ \A k \in 1..Len(ace_piles[s]) : ace_piles'[s][k] = ace_piles[s][k]]_vars

\* a foundation that held a card has received another
C26_Witness ==
    /\ op \in {"discard_to_ace_pile", "column_to_ace_pile"}
    /\ err = "none"
    /\ \E s \in SUITS : Len(ace_piles[s]) = 2

====
